---- MODULE Spec2Model ----
(***************************************************************************)
(* Model of OpenCVLauncher.__init__ (the device, automatic_model_search,   *)
(* create_network; opencv_launcher.py) and of the main loop of the         *)
(* segmentation demo (segmentation_demo.py).                               *)
(*                                                                         *)
(* The file system is a set of files; a path is a record                   *)
(* [dir, stem, suffix]; a directory path has an empty stem and suffix.     *)
(* Path.glob returns its matches in the order of the directory listing,    *)
(* which the program does not control: a list built from a glob is         *)
(* modelled as a set and list[0] as any of its elements.                   *)
(***************************************************************************)
EXTENDS Naturals, FiniteSets, Sequences

VARIABLES fs, model_name, config, pc, model, is_blob, weights, error, network

\* the launcher's device: the config entries 'device' and 'tags', the
\* delayed_model_loading argument and self.target
VARIABLES device, tags, delayed, target

deviceVars == <<device, tags, delayed, target>>

\* the segmentation demo: the position of main, its two counters, what
\* cap.read() still has, the pipeline, and the frames rendered so far
VARIABLES dpc, next_frame_id, next_frame_id_to_show, frames_left, no_show,
          empty_requests, in_flight, completed_request_results,
          callback_exceptions, event, rendered, exhausted

demoVars == <<dpc, next_frame_id, next_frame_id_to_show, frames_left, no_show,
              empty_requests, in_flight, completed_request_results,
              callback_exceptions, event, rendered, exhausted>>

launcherVars ==
    <<fs, model_name, config, pc, model, is_blob, weights, error, network,
      deviceVars>>

vars == <<fs, model_name, config, pc, model, is_blob, weights, error, network,
          deviceVars, demoVars>>

---------------------------------------------------------------------------
(* Bounds and the universe of paths.                                       *)

MaxFiles == 3

\* the frames the input holds before cap.read() returns None
MaxFrames == 3

\* args.num_infer_requests
MaxRequests == 2

Dirs == {"mdir", "wdir"}

Stems == {"net", "other", "third"}

\* the config entry '_model_name' (the stems are interchangeable)
ModelNames == {"net"}

Suffixes == {".xml", ".bin", ".blob", ".onnx", ".caffemodel", ".prototxt", ".pb"}

\* The weights directory is read by the *.bin and *.prototxt globs only; it
\* holds files of these extensions and of one that is neither. The model
\* directory, which is the weights directory when no weights are
\* configured, holds files of every extension.
WeightsDirSuffixes == {".bin", ".prototxt", ".caffemodel"}

AllFiles ==
    [dir : {"mdir"}, stem : Stems, suffix : Suffixes]
        \cup [dir : {"wdir"}, stem : Stems, suffix : WeightsDirSuffixes]

None == [dir |-> "None", stem |-> "", suffix |-> ""]

DirPath(d) == [dir |-> d, stem |-> "", suffix |-> ""]

RECURSIVE SetsUpTo(_, _)
SetsUpTo(U, k) ==
    IF k = 0 THEN {{}}
    ELSE LET S == SetsUpTo(U, k - 1) IN S \cup {s \cup {x} : s \in S, x \in U}

---------------------------------------------------------------------------
(* pathlib                                                                 *)

is_dir(p) == p.dir \in Dirs /\ p.stem = ""

parent(p) == DirPath(p.dir)

\* Path(d).glob('{name}.{ext}') with a literal name
glob_name(d, name, suffix) ==
    {f \in fs : f.dir = d.dir /\ f.stem = name /\ f.suffix = suffix}

\* Path(d).glob('*.{ext}')
glob_any(d, suffix) ==
    {f \in fs : f.dir = d.dir /\ f.suffix = suffix}

---------------------------------------------------------------------------
(* Error messages                                                          *)

ErrModelSuffix == "Models with following suffixes are allowed"

ErrNotFound == "suitable model is not found"

ErrAmbiguous == "More than one model matched, please specify explicitly"

ErrWeightsSuffix == "Weights with following suffixes are allowed"

ErrUnboundLocal == "UnboundLocalError: weights_list"

ErrIndex == "IndexError: list index out of range"

NoError == ""

---------------------------------------------------------------------------
(* automatic_model_search: the nested search functions                     *)

\* the values of the config entry '_model_is_blob'
BlobFlags == {"True", "False", "None"}

get_xml_glob_only(model_dir) == glob_any(model_dir, ".xml")

get_xml(model_dir) ==
    LET models_list == glob_name(model_dir, model_name, ".xml")
    IN IF models_list = {} THEN glob_any(model_dir, ".xml") ELSE models_list

get_blob(model_dir) ==
    LET blobs_list == glob_name(model_dir, model_name, ".blob")
    IN IF blobs_list = {} THEN glob_any(model_dir, ".blob") ELSE blobs_list

get_onnx(model_dir) ==
    LET onnx_list == glob_name(model_dir, model_name, ".onnx")
    IN IF onnx_list = {} THEN glob_any(model_dir, ".onnx") ELSE onnx_list

get_caffe_or_prototxt(model_dir) ==
    LET caffe_list == glob_name(model_dir, model_name, ".caffemodel")
    IN IF caffe_list = {}
       THEN glob_any(model_dir, ".caffemodel") \cup glob_any(model_dir, ".prototxt")
       ELSE caffe_list

get_caffe(model_dir) ==
    LET caffe_list == glob_name(model_dir, model_name, ".caffemodel")
    IN IF caffe_list = {} THEN glob_any(model_dir, ".caffemodel") ELSE caffe_list

accepted_suffixes_with_prototxt == {".blob", ".onnx", ".xml", ".prototxt"}

accepted_suffixes == {".blob", ".onnx", ".xml"}

search_dir_any_format(model_dir, model_is_blob) ==
    LET l1 == get_xml(model_dir)
        l2 == IF l1 = {} THEN get_blob(model_dir) ELSE l1
        l3 == IF l2 = {} THEN get_onnx(model_dir) ELSE l2
        l4 == IF l3 = {} THEN get_caffe(model_dir) ELSE l3
    IN l4

\* get_model, a directory: the list of candidates
search_dir(model_dir, model_is_blob) ==
    IF model_is_blob = "True" THEN get_blob(model_dir)
    ELSE LET l1 == get_xml(model_dir)
             l2 == IF l1 = {} /\ model_is_blob = "None" THEN get_blob(model_dir) ELSE l1
             l3 == IF l2 = {} THEN get_onnx(model_dir) ELSE l2
             l4 == IF l3 = {} THEN get_caffe(model_dir) ELSE l3
         IN l4

Found(m) == [error |-> NoError, model |-> m, is_blob |-> (m.suffix = ".blob")]

Raised(e) == [error |-> e, model |-> None, is_blob |-> FALSE]

select_model_first(model_list) ==
    IF model_list = {} THEN Raised(ErrNotFound)
    ELSE Found(CHOOSE m \in model_list : TRUE)

\* get_model, a directory: the candidates to the result
select_model(model_list) ==
    IF model_list = {} THEN Raised(ErrNotFound)
    ELSE IF Cardinality(model_list) # 1 THEN Raised(ErrAmbiguous)
    ELSE Found(CHOOSE m \in model_list : TRUE)

get_model ==
    LET m == config.model
        model_is_blob == config.model_is_blob
    IN IF ~is_dir(m)
       THEN IF m.suffix \notin accepted_suffixes
            THEN Raised(ErrModelSuffix)
            ELSE Found(m)
       ELSE select_model(search_dir(m, model_is_blob))

---------------------------------------------------------------------------
(* automatic_model_search: the weights, after get_model has returned       *)

accepted_weights_suffixes == {".bin", ".prototxt"}

Returned(w) == [error |-> NoError, weights |-> w]

Failed(e) == [error |-> e, weights |-> None]

\* the second "if weights is not None" block, weights_list[0] being first
check_weights(first) ==
    IF first.suffix \notin accepted_weights_suffixes
    THEN Failed(ErrWeightsSuffix)
    ELSE Returned(first)

resolve_weights_for_blob_too(m, blob, cw) ==
    IF (cw = None \/ is_dir(cw)) /\ m.suffix # ".onnx"
    THEN LET weights_dir == IF cw # None THEN cw ELSE parent(m)
             bins == glob_any(weights_dir, ".bin")
             weights_list ==
                 IF bins = {} /\ m.suffix = ".caffemodel"
                 THEN glob_any(weights_dir, ".prototxt")
                 ELSE bins
         IN IF weights_list # {}
            THEN {check_weights(first) : first \in weights_list}
            ELSE IF cw # None
                 THEN {Failed(ErrIndex)}
                 ELSE {Returned(None)}
    ELSE IF cw # None
         THEN {Failed(ErrUnboundLocal)}
         ELSE {Returned(None)}

\* The set of outcomes of the lines after get_model: one for each element
\* the directory listing can put first in weights_list.
resolve_weights(m, blob, cw) ==
    IF blob THEN {Returned(None)}
    ELSE IF (cw = None \/ is_dir(cw)) /\ m.suffix # ".onnx"
    THEN LET weights_dir == IF cw # None THEN cw ELSE parent(m)
             bins == glob_any(weights_dir, ".bin")
             weights_list ==
                 IF bins = {} /\ m.suffix = ".caffemodel"
                 THEN glob_any(weights_dir, ".prototxt")
                 ELSE bins
         IN IF weights_list # {}
            THEN {check_weights(first) : first \in weights_list}
            ELSE IF cw # None
                 THEN {Failed(ErrIndex)}
                 ELSE {Returned(None)}
    ELSE IF cw # None
         THEN {Failed(ErrUnboundLocal)}
         ELSE {Returned(None)}

---------------------------------------------------------------------------
(* The device: DEVICE_REGEX, TARGET_DEVICES and the lines of __init__ that *)
(* select self.target. A string is a sequence of characters.               *)

CPU == <<"c", "p", "u">>

GPU == <<"g", "p", "u">>

GPU_FP16 == <<"g", "p", "u", "_", "f", "p", "1", "6">>

MYRIAD == <<"m", "y", "r", "i", "a", "d">>

\* match.group('device') of an alternative that did not take part
NoDevice == <<"None">>

NoTarget == "None"

TARGET_DEVICES(name) ==
    CASE name = CPU -> "DNN_TARGET_CPU"
      [] name = GPU -> "DNN_TARGET_OPENCL"
      [] name = GPU_FP16 -> "DNN_TARGET_OPENCL_FP16"
      [] OTHER -> NoTarget

ErrDevice == "is not supported device"

lower_char(c) ==
    CASE c = "C" -> "c"
      [] c = "P" -> "p"
      [] c = "U" -> "u"
      [] c = "G" -> "g"
      [] c = "F" -> "f"
      [] c = "X" -> "x"
      [] OTHER -> c

\* str.lower
lower(s) == [i \in 1..Len(s) |-> lower_char(s[i])]

upper_char(c) ==
    CASE c = "c" -> "C"
      [] c = "p" -> "P"
      [] c = "u" -> "U"
      [] c = "g" -> "G"
      [] c = "f" -> "F"
      [] c = "x" -> "X"
      [] OTHER -> c

upper(s) == [i \in 1..Len(s) |-> upper_char(s[i])]

starts_with(s, prefix) ==
    Len(s) >= Len(prefix) /\ SubSeq(s, 1, Len(prefix)) = prefix

\* 'cpu$' at the start of s: $ matches at the end of the string and before
\* a newline that ends it
matches_cpu_end(s) ==
    /\ starts_with(s, CPU)
    /\ \/ Len(s) = Len(CPU)
       \/ Len(s) = Len(CPU) + 1 /\ s[Len(s)] = "\n"

\* re.match(DEVICE_REGEX, s).group('device'): the alternatives are tried
\* from left to right at the start of s and the first that matches is
\* taken; the group is optional, so the match itself never fails.
match_device(s) ==
    IF matches_cpu_end(s) THEN CPU
    ELSE IF starts_with(s, GPU) THEN GPU
    ELSE IF starts_with(s, GPU_FP16) THEN GPU_FP16
    ELSE NoDevice

\* the inputs: the advertised names and other strings, in both cases, with
\* something before or after
DeviceStrings ==
    LET bases == {CPU, GPU, GPU_FP16, MYRIAD, <<>>}
        cased == bases \cup {upper(b) : b \in bases}
        heads == {<<>>, <<"x">>}
        tails == {<<>>, <<"x">>, <<"\n">>}
    IN {h \o b \o t : h \in heads, b \in cased, t \in tails}

\* 'tags' in self.config, and the list
TagEntries ==
    {[present |-> FALSE, list |-> {}]}
        \cup [present : {TRUE}, list : SUBSET {"FP16", "FP32"}]

\* the lines of __init__ from the device match to the test of
\* delayed_model_loading
select_device(d, t) ==
    LET selected_device == match_device(lower(d))
    IN IF t.present /\ "FP16" \in t.list /\ selected_device = GPU
       THEN GPU_FP16
       ELSE selected_device

SelectDevice ==
    /\ pc = "device"
    /\ LET selected_device == select_device(device, tags)
       IN /\ target' = TARGET_DEVICES(selected_device)
          /\ IF TARGET_DEVICES(selected_device) = NoTarget
             THEN pc' = "failed" /\ error' = ErrDevice
             ELSE /\ pc' = IF delayed THEN "delayed" ELSE "search"
                  /\ error' = error
    /\ UNCHANGED <<fs, model_name, config, model, is_blob, weights, network,
                   device, tags, delayed, demoVars>>

\* the launcher after a device was selected, delayed_model_loading False
DeviceSelected ==
    /\ device = CPU
    /\ tags = [present |-> FALSE, list |-> {}]
    /\ delayed = FALSE
    /\ target = TARGET_DEVICES(CPU)

\* the demo is another program: the launcher runs without it
DemoNotRunning ==
    /\ dpc = "none"
    /\ next_frame_id = 0
    /\ next_frame_id_to_show = 0
    /\ frames_left = 0
    /\ no_show = FALSE
    /\ empty_requests = 0
    /\ in_flight = {}
    /\ completed_request_results = {}
    /\ callback_exceptions = {}
    /\ event = FALSE
    /\ rendered = <<>>
    /\ exhausted = FALSE

---------------------------------------------------------------------------
(* The launcher: __init__ calls automatic_model_search, then               *)
(* create_network.                                                         *)

ConfigEntries ==
    [model : {DirPath("mdir")} \cup {f \in AllFiles : f.dir = "mdir"},
     weights : {None, DirPath("wdir")} \cup {f \in AllFiles : f.dir = "wdir"},
     model_is_blob : BlobFlags]

\* PathField('model') checks that the path exists. An explicit weights file
\* is taken among the existing files: the search never looks at whether it
\* exists.
Valid(c) ==
    /\ is_dir(c.model) \/ c.model \in fs
    /\ c.weights = None \/ is_dir(c.weights) \/ c.weights \in fs

Init ==
    /\ fs \in SetsUpTo(AllFiles, MaxFiles)
    /\ model_name \in ModelNames
    /\ config \in {c \in ConfigEntries : Valid(c)}
    /\ pc = "search"
    /\ model = None
    /\ is_blob = FALSE
    /\ weights = None
    /\ error = NoError
    /\ network = <<>>
    /\ DeviceSelected
    /\ DemoNotRunning

\* model, is_blob = get_model()
GetModel ==
    /\ pc = "search"
    /\ LET r == get_model
       IN /\ model' = r.model
          /\ is_blob' = r.is_blob
          /\ error' = r.error
          /\ pc' = IF r.error = NoError THEN "weights" ELSE "failed"
    /\ UNCHANGED <<fs, model_name, config, weights, network, deviceVars, demoVars>>

\* the rest of automatic_model_search, to its return or its exception
ResolveWeights ==
    /\ pc = "weights"
    /\ \E r \in resolve_weights(model, is_blob, config.weights) :
          /\ weights' = r.weights
          /\ error' = r.error
          /\ pc' = IF r.error = NoError THEN "create" ELSE "failed"
    /\ UNCHANGED <<fs, model_name, config, model, is_blob, network, deviceVars,
                   demoVars>>

\* self.network = self.create_network(self.model, self.weights)
CreateNetwork ==
    /\ pc = "create"
    /\ network' = <<model, weights>>
    /\ pc' = "loaded"
    /\ UNCHANGED <<fs, model_name, config, model, is_blob, weights, error,
                   deviceVars, demoVars>>

Next == GetModel \/ ResolveWeights \/ CreateNetwork

Spec == Init /\ [][Next]_vars

\* __init__ from the device on, over a few model directories
DeviceFileSystems ==
    {{},
     {[dir |-> "mdir", stem |-> "net", suffix |-> ".blob"]},
     {[dir |-> "mdir", stem |-> "net", suffix |-> ".xml"],
      [dir |-> "mdir", stem |-> "net", suffix |-> ".bin"]}}

InitDevice ==
    /\ fs \in DeviceFileSystems
    /\ model_name \in ModelNames
    /\ config = [model |-> DirPath("mdir"), weights |-> None, model_is_blob |-> "None"]
    /\ pc = "device"
    /\ model = None
    /\ is_blob = FALSE
    /\ weights = None
    /\ error = NoError
    /\ network = <<>>
    /\ device \in DeviceStrings
    /\ tags \in TagEntries
    /\ delayed \in BOOLEAN
    /\ target = NoTarget
    /\ DemoNotRunning

NextDevice == SelectDevice \/ GetModel \/ ResolveWeights \/ CreateNetwork

SpecDevice == InitDevice /\ [][NextDevice]_vars

TypeOK ==
    /\ pc \in {"none", "device", "delayed", "search", "weights", "create",
              "loaded", "failed"}
    /\ fs \subseteq AllFiles

---------------------------------------------------------------------------
(* Vocabulary of the properties                                            *)

\* get_model has run
Searched == pc # "search"

\* get_model has returned a model and the lines after it have run
WeightsDone == pc \in {"create", "loaded", "failed"} /\ model # None

ModelIsDir == is_dir(config.model)

\* the extensions get_model globs for in a directory, in the order it tries
\* them: .xml, .blob, .onnx, .caffemodel
DirSuffixes == {".xml", ".blob", ".onnx", ".caffemodel"}

Rank(suffix) ==
    CASE suffix = ".xml" -> 1
      [] suffix = ".blob" -> 2
      [] suffix = ".onnx" -> 3
      [] OTHER -> 4

\* the extensions tried under a value of _model_is_blob
SearchedSuffixes(flag) ==
    IF flag = "True" THEN {".blob"}
    ELSE IF flag = "False" THEN DirSuffixes \ {".blob"}
    ELSE DirSuffixes

InModelDir(suffixes) ==
    {f \in fs : f.dir = config.model.dir /\ f.suffix \in suffixes}

\* the files named {model_name}.{ext} in the model directory
Named(suffixes) == {f \in InModelDir(suffixes) : f.stem = model_name}

\* no file of an extension tried before f's
FirstTried(f) ==
    /\ f.suffix \in SearchedSuffixes(config.model_is_blob)
    /\ InModelDir({s \in SearchedSuffixes(config.model_is_blob) :
                      Rank(s) < Rank(f.suffix)}) = {}

\* the primary extensions of the specification's section 6
SpecPrimarySuffixes == {".xml", ".onnx", ".blob", ".pdmodel", ".pb", ".prototxt"}

RequiresWeights(m) == m.suffix \notin {".onnx", ".blob"}

WeightsSuffix(m) == IF m.suffix = ".caffemodel" THEN ".prototxt" ELSE ".bin"

WeightsDir == IF config.weights # None THEN config.weights ELSE parent(model)

\* the same-stem companion of the model in the weights directory
Companion ==
    [dir |-> WeightsDir.dir, stem |-> model.stem, suffix |-> WeightsSuffix(model)]

WeightsCandidates ==
    {f \in fs : f.dir = WeightsDir.dir /\ f.suffix = WeightsSuffix(model)}

ConfigErrors == {ErrModelSuffix, ErrNotFound, ErrAmbiguous, ErrWeightsSuffix}

---------------------------------------------------------------------------
(* C1, as stated, with no declared format (_model_is_blob is None): a      *)
(* directory with exactly one file named {model_name}.{ext}, ext one of    *)
(* the extensions the directory search knows, resolves to that file,       *)
(* whatever else the directory holds.                                      *)
C1_AsStated ==
    (Searched /\ ModelIsDir /\ config.model_is_blob = "None"
              /\ Cardinality(Named(DirSuffixes)) = 1)
        => model \in Named(DirSuffixes)

(* C1, amended: a directory with exactly one file named                    *)
(* {model_name}.{ext} resolves to that file when ext is among the          *)
(* extensions tried under the given _model_is_blob and the directory       *)
(* holds no file of an extension tried before ext; other files of the      *)
(* same or a later extension do not matter.                                *)
C1_ExactNameFirstFormat ==
    (Searched /\ ModelIsDir /\ Cardinality(Named(DirSuffixes)) = 1)
        => \A f \in Named(DirSuffixes) : FirstTried(f) => model = f

\* the exact name wins over another file of the same extension
C1_Witness ==
    /\ Searched /\ ModelIsDir
    /\ Cardinality(Named(DirSuffixes)) = 1
    /\ \E f \in Named(DirSuffixes) :
          /\ FirstTried(f)
          /\ model = f
          /\ \E g \in InModelDir({f.suffix}) : g # f

(* C2: in a directory, when the first search step that yields candidates   *)
(* (the exact name, else the *.ext glob, of the first extension that has   *)
(* a file) yields more than one, the search fails with 'More than one      *)
(* model matched' and returns no model.                                    *)
C2_AmbiguousFails ==
    (Searched /\ ModelIsDir)
        => \A s \in SearchedSuffixes(config.model_is_blob) :
              LET first == InModelDir({s}) # {} /\
                           \A f \in InModelDir({s}) : FirstTried(f)
                  step == IF Named({s}) # {} THEN Named({s}) ELSE InModelDir({s})
              IN (first /\ Cardinality(step) > 1)
                    => pc = "failed" /\ error = ErrAmbiguous /\ model = None

C2_Witness ==
    /\ Searched /\ ModelIsDir
    /\ \E s \in SearchedSuffixes(config.model_is_blob) :
          /\ Named({s}) = {}
          /\ Cardinality(InModelDir({s})) > 1
          /\ \A f \in InModelDir({s}) : FirstTried(f)
    /\ pc = "failed" /\ error = ErrAmbiguous

(* C3: with weights None or a directory and a model that needs companion   *)
(* weights, the same-stem companion in the weights directory is used       *)
(* whenever it exists, whatever other weights files are there; if it is    *)
(* absent and exactly one weights file exists, that one is chosen.         *)
C3_SameStemCompanion ==
    (WeightsDone /\ RequiresWeights(model)
                 /\ (config.weights = None \/ is_dir(config.weights)))
        => /\ Companion \in fs => (pc # "failed" /\ weights = Companion)
           /\ (Companion \notin fs /\ Cardinality(WeightsCandidates) = 1)
                 => (pc # "failed" /\ weights \in WeightsCandidates)

(* C4: when the same-stem weights file does not exist and the weights      *)
(* directory holds more than one file of the weights extension, the        *)
(* resolution fails with an ambiguity error and returns none of them.      *)
C4_AmbiguousWeightsFail ==
    (WeightsDone /\ RequiresWeights(model)
                 /\ (config.weights = None \/ is_dir(config.weights))
                 /\ Companion \notin fs
                 /\ Cardinality(WeightsCandidates) > 1)
        => pc = "failed" /\ error = ErrAmbiguous /\ weights = None

(* C5: for a model that needs companion weights, when weights is None or   *)
(* a directory and no weights file is found, the resolution fails with a   *)
(* configuration error; create_network is never called with a None         *)
(* weights file for such a model.                                          *)
C5_NoWeightsFails ==
    /\ (WeightsDone /\ RequiresWeights(model)
                    /\ (config.weights = None \/ is_dir(config.weights))
                    /\ WeightsCandidates = {}
                    /\ glob_any(WeightsDir, ".bin") = {})
          => pc = "failed" /\ error \in ConfigErrors
    /\ (pc = "loaded" /\ RequiresWeights(model)) => network[2] # None

(* C6: an explicit weights file whose extension is not an accepted weights *)
(* extension makes the resolution fail with 'Weights with following        *)
(* suffixes are allowed' and with nothing else; one whose extension is     *)
(* accepted is returned as the weights file.                               *)
C6_ExplicitWeightsChecked ==
    (WeightsDone /\ RequiresWeights(model)
                 /\ config.weights # None /\ ~is_dir(config.weights))
        => IF config.weights.suffix \in accepted_weights_suffixes
           THEN pc # "failed" /\ weights = config.weights
           ELSE pc = "failed" /\ error = ErrWeightsSuffix

(* C7: with a declared format (_model_is_blob True: a blob; False: not a   *)
(* blob) and a directory, only files of the declared format's extensions   *)
(* are considered: the model found is never of another format, and when    *)
(* the directory holds no file of the declared format the search fails     *)
(* with 'suitable model is not found', whatever other files it holds.      *)
C7_DeclaredFormatOnly ==
    (Searched /\ ModelIsDir /\ config.model_is_blob # "None")
        => /\ model # None => model.suffix \in SearchedSuffixes(config.model_is_blob)
           /\ InModelDir(SearchedSuffixes(config.model_is_blob)) = {}
                 => (pc = "failed" /\ error = ErrNotFound /\ model = None)

\* a blob is declared and found although an .xml would have matched first
C7_Witness ==
    /\ Searched /\ ModelIsDir
    /\ config.model_is_blob = "True"
    /\ InModelDir({".xml"}) # {}
    /\ model # None /\ model.suffix = ".blob"

C9_AsStated ==
    (Searched /\ ~ModelIsDir)
        => IF config.model.suffix \in SpecPrimarySuffixes
           THEN model = config.model /\ is_blob = (model.suffix = ".blob")
           ELSE pc = "failed" /\ error = ErrModelSuffix /\ model = None

(* C9, amended: a model path that is a file of extension .xml, .onnx or    *)
(* .blob is the model found, whatever _model_is_blob is; a file of any     *)
(* other extension (.pdmodel, .pb and .prototxt among them) fails with     *)
(* 'Models with following suffixes are allowed'.                           *)
C9_FileBySuffix ==
    (Searched /\ ~ModelIsDir)
        => IF config.model.suffix \in {".xml", ".onnx", ".blob"}
           THEN model = config.model /\ is_blob = (model.suffix = ".blob")
           ELSE pc = "failed" /\ error = ErrModelSuffix /\ model = None

\* an .xml file is found although a blob is declared
C9_Witness ==
    /\ Searched /\ ~ModelIsDir
    /\ config.model_is_blob = "True"
    /\ config.model.suffix = ".xml"
    /\ model = config.model /\ ~is_blob

(* C10: whenever automatic_model_search returns a precompiled blob, the    *)
(* weights it returns are None, for every model path, weights setting and  *)
(* declared format.                                                        *)
C10_BlobHasNoWeights ==
    (pc \in {"create", "loaded"} /\ (is_blob \/ model.suffix = ".blob"))
        => /\ weights = None
           /\ is_blob /\ model.suffix = ".blob"
           /\ pc = "loaded" => network = <<model, None>>

\* a blob is loaded without weights although a weights file was there
C10_Witness ==
    /\ pc = "loaded" /\ is_blob
    /\ glob_any(parent(model), ".bin") # {}
    /\ weights = None

(* C11: without tags, the device 'cpu', 'gpu' or 'gpu_fp16' sets           *)
(* self.target to TARGET_DEVICES['cpu'], TARGET_DEVICES['gpu'] or          *)
(* TARGET_DEVICES['gpu_fp16'], and a device string that yields no          *)
(* supported device raises ConfigError before any model search or network  *)
(* creation.                                                               *)
C11_DeviceTargets ==
    (pc # "device")
        => /\ ~tags.present
              => \A name \in {CPU, GPU, GPU_FP16} :
                    device = name
                        => (target = TARGET_DEVICES(name) /\ error # ErrDevice)
           /\ select_device(device, tags) \notin {CPU, GPU, GPU_FP16}
                 => /\ pc = "failed" /\ error = ErrDevice
                    /\ model = None /\ network = <<>>

---------------------------------------------------------------------------
(* segmentation_demo.py: the main loop and the drain loop of main.         *)
(*                                                                         *)
(* AsyncPipeline is not part of the sources; it is modelled by what main   *)
(* relies on. It owns max_num_requests inference requests. submit_data     *)
(* takes a free request and starts it for a frame id; a request ends, at   *)
(* any time, in the completion callback, which either stores the result    *)
(* under the frame id and frees the request, or records an exception in    *)
(* callback_exceptions; get_result(id) removes and returns the result      *)
(* stored under id, or returns None.                                       *)

pipeline_is_ready == empty_requests # 0

pipeline_has_completed_request == completed_request_results # {}

\* whether get_result(id) returns a result
pipeline_has_result(id) == id \in completed_request_results

pipeline_submit_data(id) ==
    /\ empty_requests' = empty_requests - 1
    /\ event' = IF empty_requests = 1 THEN FALSE ELSE event
    /\ in_flight' = in_flight \cup {id}

\* the completion callback, the inference having succeeded
CallbackResult ==
    \E id \in in_flight :
        /\ in_flight' = in_flight \ {id}
        /\ completed_request_results' = completed_request_results \cup {id}
        /\ empty_requests' = empty_requests + 1
        /\ event' = TRUE
        /\ UNCHANGED <<launcherVars, dpc, next_frame_id, next_frame_id_to_show, frames_left,
                       no_show, callback_exceptions, rendered, exhausted>>

\* the completion callback, the inference having failed
CallbackException ==
    \E id \in in_flight :
        /\ in_flight' = in_flight \ {id}
        /\ callback_exceptions' = callback_exceptions \cup {id}
        /\ event' = TRUE
        /\ UNCHANGED <<launcherVars, dpc, next_frame_id, next_frame_id_to_show, frames_left,
                       no_show, completed_request_results, empty_requests,
                       rendered, exhausted>>

\* while True, pipeline.is_ready(), cap.read() returns a frame
SubmitFrame ==
    /\ dpc = "loop"
    /\ pipeline_is_ready
    /\ frames_left > 0
    /\ frames_left' = frames_left - 1
    /\ pipeline_submit_data(next_frame_id)
    /\ next_frame_id' = next_frame_id + 1
    /\ dpc' = "check"
    /\ UNCHANGED <<launcherVars, next_frame_id_to_show, no_show, completed_request_results,
                   callback_exceptions, rendered, exhausted>>

\* while True, pipeline.is_ready(), cap.read() returns None: break
InputExhausted ==
    /\ dpc = "loop"
    /\ pipeline_is_ready
    /\ frames_left = 0
    /\ exhausted' = TRUE
    /\ dpc' = "await_all"
    /\ UNCHANGED <<launcherVars, next_frame_id, next_frame_id_to_show, frames_left, no_show,
                   empty_requests, in_flight, completed_request_results,
                   callback_exceptions, event, rendered>>

\* while True, not pipeline.is_ready(): pipeline.await_any() returns once a
\* callback has run
AwaitAny ==
    /\ dpc = "loop"
    /\ ~pipeline_is_ready
    /\ event
    /\ dpc' = "check"
    /\ UNCHANGED <<launcherVars, next_frame_id, next_frame_id_to_show, frames_left, no_show,
                   empty_requests, in_flight, completed_request_results,
                   callback_exceptions, event, rendered, exhausted>>

\* if pipeline.callback_exceptions: raise
CheckExceptions ==
    /\ dpc = "check"
    /\ dpc' = IF callback_exceptions # {} THEN "raised" ELSE "show"
    /\ UNCHANGED <<launcherVars, next_frame_id, next_frame_id_to_show, frames_left, no_show,
                   empty_requests, in_flight, completed_request_results,
                   callback_exceptions, event, rendered, exhausted>>

\* results = pipeline.get_result(next_frame_id_to_show) of the main loop;
\* the key pressed is ESC or another
ShowResult ==
    /\ dpc = "show"
    /\ IF pipeline_has_result(next_frame_id_to_show)
       THEN /\ completed_request_results' =
                   completed_request_results \ {next_frame_id_to_show}
            /\ rendered' = Append(rendered, next_frame_id_to_show)
            /\ \E esc \in {b \in BOOLEAN : b => ~no_show} :
                  IF esc
                  THEN /\ dpc' = "await_all"
                       /\ UNCHANGED next_frame_id_to_show
                  ELSE /\ dpc' = "loop"
                       /\ next_frame_id_to_show' = next_frame_id_to_show + 1
       ELSE /\ dpc' = "loop"
            /\ UNCHANGED <<completed_request_results, rendered,
                           next_frame_id_to_show>>
    /\ UNCHANGED <<launcherVars, next_frame_id, frames_left, no_show, empty_requests,
                   in_flight, callback_exceptions, event, exhausted>>

\* pipeline.await_all() returns when every request has ended
AwaitAll ==
    /\ dpc = "await_all"
    /\ in_flight = {}
    /\ dpc' = "drain"
    /\ UNCHANGED <<launcherVars, next_frame_id, next_frame_id_to_show, frames_left, no_show,
                   empty_requests, in_flight, completed_request_results,
                   callback_exceptions, event, rendered, exhausted>>

\* one turn of while pipeline.has_completed_request()
Drain ==
    /\ dpc = "drain"
    /\ IF pipeline_has_completed_request
          /\ pipeline_has_result(next_frame_id_to_show)
       THEN /\ completed_request_results' =
                   completed_request_results \ {next_frame_id_to_show}
            /\ rendered' = Append(rendered, next_frame_id_to_show)
            /\ next_frame_id_to_show' = next_frame_id_to_show + 1
            /\ dpc' = "drain"
       ELSE /\ dpc' = "metrics"
            /\ UNCHANGED <<completed_request_results, rendered,
                           next_frame_id_to_show>>
    /\ UNCHANGED <<launcherVars, next_frame_id, frames_left, no_show, empty_requests,
                   in_flight, callback_exceptions, event, exhausted>>

\* metrics.print_total()
PrintTotal ==
    /\ dpc = "metrics"
    /\ dpc' = "done"
    /\ UNCHANGED <<launcherVars, next_frame_id, next_frame_id_to_show, frames_left, no_show,
                   empty_requests, in_flight, completed_request_results,
                   callback_exceptions, event, rendered, exhausted>>

\* the demo does not construct the launcher
LauncherNotRunning ==
    /\ fs = {}
    /\ model_name \in ModelNames
    /\ config = [model |-> DirPath("mdir"), weights |-> None, model_is_blob |-> "None"]
    /\ pc = "none"
    /\ model = None
    /\ is_blob = FALSE
    /\ weights = None
    /\ error = NoError
    /\ network = <<>>
    /\ DeviceSelected

InitDemo ==
    /\ LauncherNotRunning
    /\ dpc = "loop"
    /\ next_frame_id = 0
    /\ next_frame_id_to_show = 0
    /\ frames_left \in 0..MaxFrames
    /\ no_show \in BOOLEAN
    /\ empty_requests \in 1..MaxRequests
    /\ in_flight = {}
    /\ completed_request_results = {}
    /\ callback_exceptions = {}
    /\ event = FALSE
    /\ rendered = <<>>
    /\ exhausted = FALSE

NextDemo ==
    \/ SubmitFrame \/ InputExhausted \/ AwaitAny \/ CheckExceptions
    \/ ShowResult \/ AwaitAll \/ Drain \/ PrintTotal
    \/ CallbackResult \/ CallbackException

SpecDemo == InitDemo /\ [][NextDemo]_vars

(* C12: in the main loop and the drain loop, for any interleaving of the   *)
(* request completions, next_frame_id_to_show <= next_frame_id in every    *)
(* state, the frames are rendered in the order 0, 1, 2, ... with no gap    *)
(* and no repeat, and when the input is exhausted every submitted frame    *)
(* has been rendered before the metrics are printed.                       *)
C12_FramesInOrder ==
    /\ next_frame_id_to_show <= next_frame_id
    /\ \A i \in 1..Len(rendered) : rendered[i] = i - 1
    /\ Len(rendered) <= next_frame_id
    /\ (dpc = "done" /\ exhausted) => Len(rendered) = next_frame_id

====
